---- MODULE Spec2Model ----
(***************************************************************************)
(* Model of main.py of translated-subs: the batch that, for each selected  *)
(* video, extracts the audio (ffmpeg), transcribes it (Whisper),           *)
(* translates every segment (SeamlessM4T pipeline), composes an SRT        *)
(* document (srt.compose) and writes it under two file names.              *)
(*                                                                         *)
(* Times are kept in integer milliseconds (the code holds float seconds);  *)
(* texts and file contents are tuples of one-character strings.            *)
(***************************************************************************)
EXTENDS Integers, Sequences, FiniteSets, TLC

VARIABLES
    selected_files,       \* main.py:111  the videos chosen by the user, in order
    src_lang,             \* main.py:127
    tgt_lang,             \* main.py:132
    speech,               \* what Whisper returns for each video's audio
    pc,                   \* position of main() in its code
    translator,           \* main.py:140  "unset" | "ready" | "failed"
    init_calls,           \* number of calls of pipeline(...) so far
    i,                    \* number of videos the for loop (151) has taken
    fs,                   \* the folder: path -> content, for the files that exist
    transcript_segments,  \* main.py:165
    j,                    \* segments translated so far in the loop at 169
    srt_content,          \* main.py:184
    processed_videos,     \* main.py:147
    generated_subtitles,  \* main.py:148
    exit_status,          \* "running", or the status the process ended with: "0" | "1"
    failed_stage,         \* history: the stage whose exception ended the process
    run_written           \* history: subtitle paths the current video's run created

vars == <<selected_files, src_lang, tgt_lang, speech, pc, translator, init_calls,
          i, fs, transcript_segments, j, srt_content, processed_videos,
          generated_subtitles, exit_status, failed_stage, run_written>>

----------------------------------------------------------------------------
(* Bounds of the model *)

\* longest selection the user types at line 100
MaxSel == 2
\* longest segment list Whisper returns in the single-video specification
MaxSegs == 2

----------------------------------------------------------------------------
(* Helpers: sequences *)

Last(s) == s[Len(s)]

Front(s) == SubSeq(s, 1, Len(s) - 1)

IsPrefix(s, t) == Len(s) <= Len(t) /\ SubSeq(t, 1, Len(s)) = s

RECURSIVE SeqsUpTo(_, _)
SeqsUpTo(S, n) ==
    IF n = 0 THEN {<<>>}
    ELSE LET shorter == SeqsUpTo(S, n - 1)
         IN  shorter \cup {Append(s, x) : s \in {t \in shorter : Len(t) = n - 1}, x \in S}

----------------------------------------------------------------------------
(* The folder and the selection, main.py:82-111 *)

\* os.listdir(folder): the entries of the folder, as (root, extension) pairs
FolderListing ==
    << [root |-> "clip1", ext |-> ".mp4"],
       [root |-> "notes", ext |-> ".txt"],
       [root |-> "clip2", ext |-> ".MP4"] >>

\* str.lower() on the extensions that occur
Lower(ext) == IF ext = ".MP4" THEN ".mp4" ELSE ext

\* line 88: [f for f in os.listdir(folder) if f.lower().endswith(".mp4")]
IsMp4(f) == Lower(f.ext) = ".mp4"

video_files == SelectSeq(FolderListing, IsMp4)

\* lines 98-109: the accepted answers, every index within 1..len(video_files)
SelectedIndices == SeqsUpTo(1 .. Len(video_files), MaxSel)

\* line 111
SelectedFiles(indices) == [k \in 1 .. Len(indices) |-> video_files[indices[k]]]

\* lines 114-120
languages == {"it", "en", "fr", "es", "de"}

\* os.path.splitext(file)[0], line 153
BaseName(file) == file.root

\* line 152 and line 157: paths inside the folder
VideoPath(file) == <<file.root, file.ext>>

AudioPath(file) == <<BaseName(file), ".wav">>

----------------------------------------------------------------------------
(* Output naming, main.py:186-193 *)

\* line 190
iso_map == [c \in {"en", "it", "fr", "es", "de"} |->
              CASE c = "en" -> "eng"
                [] c = "it" -> "ita"
                [] c = "fr" -> "fra"
                [] c = "es" -> "spa"
                [] c = "de" -> "deu"]

\* Variant of AltLangCode with a fixed default instead of the code itself
\* (iso_map.get(tgt_lang, "und")); the naming property must tell the two apart.
AltLangCode_FixedDefault(code) == IF code \in DOMAIN iso_map THEN iso_map[code] ELSE "und"

\* line 191: iso_map.get(tgt_lang, tgt_lang)
AltLangCode(code) == IF code \in DOMAIN iso_map THEN iso_map[code] ELSE code

\* lines 187-188: f"{base_name}.{tgt_lang}.srt"
SrtPath(file, code) == <<BaseName(file), ".", code, ".srt">>

\* lines 192-193
AltSrtPath(file, code) == <<BaseName(file), ".", AltLangCode(code), ".srt">>

----------------------------------------------------------------------------
(* Texts, transcription and translation *)

\* str.strip(), line 170: drop the leading and the trailing blanks
RECURSIVE LStrip(_)
LStrip(t) == IF t /= <<>> /\ Head(t) = " " THEN LStrip(Tail(t)) ELSE t

RECURSIVE RStrip(_)
RStrip(t) == IF t /= <<>> /\ Last(t) = " " THEN RStrip(Front(t)) ELSE t

Strip(t) == RStrip(LStrip(t))

\* lines 59-62: translator(text, src_lang=..., tgt_lang=...)[0]['translation_text'].
\* The backend is a service outside the program; it is stood for by a fixed function
\* of its three arguments that tags the text with the language pair and maps the
\* empty text to the empty text.
translate_text(text, src, tgt) ==
    IF text = <<>> THEN <<>> ELSE <<src, ">", tgt, ":">> \o text

\* The (start, end) pairs, in milliseconds, and the texts a Whisper segment takes
SegTimes == {<<0, 2500>>, <<2500, 5000>>, <<0, 61500>>, <<5000, 5000>>}

SegTexts == {<<"C", "i", "a", "o">>, <<" ", "o", "k", " ">>, <<" ">>}

Segments == {[start |-> t[1], end |-> t[2], text |-> x] : t \in SegTimes, x \in SegTexts}

\* result["segments"] of line 164-165, any list of at most n segments
Transcripts(n) == SeqsUpTo(Segments, n)

\* The segment lists of the batch specification: the two-segment example
\* (Ciao / ok), a list that is out of order with a blank text, and silence
BatchTranscripts ==
    { << [start |-> 0, end |-> 2500, text |-> <<"C", "i", "a", "o">>],
         [start |-> 2500, end |-> 5000, text |-> <<" ", "o", "k", " ">>] >>,
      << [start |-> 2500, end |-> 5000, text |-> <<" ">>],
         [start |-> 0, end |-> 2500, text |-> <<"C", "i", "a", "o">>] >>,
      <<>> }

\* Variant of TranslateSegment that translates the text as transcribed, without
\* strip(); the entry property must tell the two apart.
TranslateSegment_NoStrip(segs, k, src, tgt) ==
    [segs EXCEPT ![k].text = translate_text(segs[k].text, src, tgt)]

\* lines 169-172 for the segment at position k: the text is stripped, translated and
\* stored back in place; start and end are not touched
TranslateSegment(segs, k, src, tgt) ==
    [segs EXCEPT ![k].text = translate_text(Strip(segs[k].text), src, tgt)]

----------------------------------------------------------------------------
(* Subtitle assembly, main.py:175-184 *)

\* datetime.timedelta(seconds=x), normalised to days, seconds and microseconds
TimeDelta(ms) ==
    [days         |-> (ms \div 1000) \div 86400,
     seconds      |-> (ms \div 1000) % 86400,
     microseconds |-> (ms % 1000) * 1000]

\* order of timedelta values
TdLess(a, b) ==
    \/ a.days < b.days
    \/ a.days = b.days /\ a.seconds < b.seconds
    \/ a.days = b.days /\ a.seconds = b.seconds /\ a.microseconds < b.microseconds

\* lines 176-183: one srt.Subtitle per segment, index = position from 1
Subtitles(segs) ==
    [k \in 1 .. Len(segs) |->
        [index   |-> k,
         start   |-> TimeDelta(segs[k].start),
         end     |-> TimeDelta(segs[k].end),
         content |-> segs[k].text]]

\* srt.Subtitle ordering: by (start, end, index)
SubLess(a, b) ==
    \/ TdLess(a.start, b.start)
    \/ a.start = b.start /\ TdLess(a.end, b.end)
    \/ a.start = b.start /\ a.end = b.end /\ a.index < b.index

RECURSIVE Insert(_, _)
Insert(sorted, x) ==
    IF sorted = <<>> THEN <<x>>
    ELSE IF SubLess(x, Head(sorted)) THEN <<x>> \o sorted
    ELSE <<Head(sorted)>> \o Insert(Tail(sorted), x)

RECURSIVE SortSubs(_)
SortSubs(subs) ==
    IF subs = <<>> THEN <<>> ELSE Insert(SortSubs(Front(subs)), Last(subs))

\* srt's rule for an entry that compose drops: no content but blanks, a negative
\* start, or a start that is not before the end
ShouldSkipSub(sub) ==
    \/ Strip(sub.content) = <<>>
    \/ sub.start.days < 0
    \/ ~ TdLess(sub.start, sub.end)

\* srt's HH:MM:SS,mmm fields of a timedelta
SrtTimestamp(td) ==
    [hrs   |-> td.seconds \div 3600 + td.days * 24,
     mins  |-> (td.seconds % 3600) \div 60,
     secs  |-> td.seconds % 60,
     msecs |-> td.microseconds \div 1000]

\* one block of the document: index line, time range line, content
SrtBlock(sub, idx) ==
    [index   |-> idx,
     start   |-> SrtTimestamp(sub.start),
     end     |-> SrtTimestamp(sub.end),
     content |-> sub.content]

\* Variant of Compose that keeps the entries in the order given
\* (srt.compose(subtitles, reindex=False)); the ordering property must tell the two
\* apart.
Compose_NoSort(subs) == [k \in 1 .. Len(subs) |-> SrtBlock(subs[k], subs[k].index)]

\* line 184: srt.compose(subtitles) with its defaults reindex=True, start_index=1,
\* strict=True: the entries are sorted, the ones to skip are dropped, the rest are
\* numbered from 1 and rendered in that order
Compose(subs) ==
    LET kept == SelectSeq(SortSubs(subs), LAMBDA s : ~ ShouldSkipSub(s))
    IN  [k \in 1 .. Len(kept) |-> SrtBlock(kept[k], k)]

----------------------------------------------------------------------------
(* The file system *)

Exists(f, path) == path \in DOMAIN f

\* open(path, "w") + write, and ffmpeg -y: create or replace
WriteFile(f, path, content) ==
    [q \in DOMAIN f \cup {path} |-> IF q = path THEN content ELSE f[q]]

\* os.remove(path)
RemoveFile(f, path) == [q \in DOMAIN f \ {path} |-> f[q]]

\* a file that was in the folder before the run
FolderData(file) == [kind |-> "entry", complete |-> TRUE, of |-> file.root, doc |-> <<>>]

\* lines 65-75: the PCM track ffmpeg writes for a video
AudioData(file) == [kind |-> "wav", complete |-> TRUE, of |-> file.root, doc |-> <<>>]

\* what ffmpeg leaves when it fails after opening its output
PartialAudio(file) == [kind |-> "wav", complete |-> FALSE, of |-> file.root, doc |-> <<>>]

\* lines 196-199: f.write(srt_content)
SrtData(content) == [kind |-> "srt", complete |-> TRUE, of |-> "", doc |-> content]

\* a subtitle file that open(path, "w") created or emptied and whose write failed
PartialSrt == [kind |-> "srt", complete |-> FALSE, of |-> "", doc |-> <<>>]

FolderFiles ==
    [q \in {VideoPath(FolderListing[k]) : k \in 1 .. Len(FolderListing)} |->
        FolderData(CHOOSE f \in {FolderListing[k] : k \in 1 .. Len(FolderListing)} :
                      VideoPath(f) = q)]

----------------------------------------------------------------------------
(* main(), lines 78-217 *)

Videos == {video_files[k] : k \in 1 .. Len(video_files)}

\* the video of the current iteration of the loop at line 151
file == selected_files[i]

\* The state at line 138, after the prompts: the selection, the two language codes
\* and, per video, the segments Whisper will return for its audio
InitWith(selections, sources, targets, speeches) ==
    /\ selected_files \in selections
    /\ src_lang \in sources
    /\ tgt_lang \in targets
    /\ speech \in speeches
    /\ pc = "InitTranslator"
    /\ translator = "unset"
    /\ init_calls = 0
    /\ i = 0
    /\ fs = FolderFiles
    /\ transcript_segments = <<>>
    /\ j = 0
    /\ srt_content = <<>>
    /\ processed_videos = <<>>
    /\ generated_subtitles = <<>>
    /\ exit_status = "running"
    /\ failed_stage = "none"
    /\ run_written = {}

Init ==
    InitWith({SelectedFiles(idx) : idx \in SelectedIndices}, languages, languages,
             [Videos -> BatchTranscripts])

\* An exception that no handler catches leaves main(): the interpreter prints the
\* traceback and the process ends with status 1
Crash(stage) ==
    /\ pc' = "Exited"
    /\ exit_status' = "1"
    /\ failed_stage' = stage

\* lines 139-140
InitTranslatorOk ==
    /\ pc = "InitTranslator"
    /\ translator' = "ready"
    /\ init_calls' = init_calls + 1
    /\ pc' = "LoopHead"
    /\ UNCHANGED <<selected_files, src_lang, tgt_lang, speech, i, fs,
                   transcript_segments, j, srt_content, processed_videos,
                   generated_subtitles, exit_status, failed_stage, run_written>>

\* Variant of InitTranslatorFail without the sys.exit(1) of line 145: the handler
\* prints and main() goes on to the loop.
InitTranslatorFail_NoExit ==
    /\ pc = "InitTranslator"
    /\ translator' = "failed"
    /\ init_calls' = init_calls + 1
    /\ pc' = "LoopHead"
    /\ UNCHANGED <<selected_files, src_lang, tgt_lang, speech, i, fs,
                   transcript_segments, j, srt_content, processed_videos,
                   generated_subtitles, exit_status, failed_stage, run_written>>

\* lines 141-145: except Exception ... sys.exit(1)
InitTranslatorFail ==
    /\ pc = "InitTranslator"
    /\ translator' = "failed"
    /\ init_calls' = init_calls + 1
    /\ pc' = "Exited"
    /\ exit_status' = "1"
    /\ UNCHANGED <<selected_files, src_lang, tgt_lang, speech, i, fs,
                   transcript_segments, j, srt_content, processed_videos,
                   generated_subtitles, failed_stage, run_written>>

\* lines 151-158: the loop takes the next selected file
NextVideo ==
    /\ pc = "LoopHead"
    /\ i < Len(selected_files)
    /\ i' = i + 1
    /\ pc' = "Extracting"
    /\ run_written' = {}
    /\ UNCHANGED <<selected_files, src_lang, tgt_lang, speech, translator, init_calls,
                   fs, transcript_segments, j, srt_content, processed_videos,
                   generated_subtitles, exit_status, failed_stage>>

\* line 159, ffmpeg exits 0
ExtractAudioOk ==
    /\ pc = "Extracting"
    /\ fs' = WriteFile(fs, AudioPath(file), AudioData(file))
    /\ pc' = "Transcribing"
    /\ UNCHANGED <<selected_files, src_lang, tgt_lang, speech, translator, init_calls,
                   i, transcript_segments, j, srt_content, processed_videos,
                   generated_subtitles, exit_status, failed_stage, run_written>>

\* line 159 with line 75: check=True raises CalledProcessError; ffmpeg has either
\* not opened its output or left a part of it
ExtractAudioFail ==
    /\ pc = "Extracting"
    /\ \E partial \in BOOLEAN :
          fs' = IF partial THEN WriteFile(fs, AudioPath(file), PartialAudio(file)) ELSE fs
    /\ Crash("Extracting")
    /\ UNCHANGED <<selected_files, src_lang, tgt_lang, speech, translator, init_calls,
                   i, transcript_segments, j, srt_content, processed_videos,
                   generated_subtitles, run_written>>

\* lines 163-165
TranscribeOk ==
    /\ pc = "Transcribing"
    /\ transcript_segments' = speech[file]
    /\ j' = 0
    /\ pc' = "Translating"
    /\ UNCHANGED <<selected_files, src_lang, tgt_lang, speech, translator, init_calls,
                   i, fs, srt_content, processed_videos, generated_subtitles,
                   exit_status, failed_stage, run_written>>

\* lines 163-164: whisper.load_model or transcribe raises
TranscribeFail ==
    /\ pc = "Transcribing"
    /\ Crash("Transcribing")
    /\ UNCHANGED <<selected_files, src_lang, tgt_lang, speech, translator, init_calls,
                   i, fs, transcript_segments, j, srt_content, processed_videos,
                   generated_subtitles, run_written>>

\* lines 169-172, one iteration
TranslateOk ==
    /\ pc = "Translating"
    /\ j < Len(transcript_segments)
    /\ transcript_segments' = TranslateSegment(transcript_segments, j + 1, src_lang, tgt_lang)
    /\ j' = j + 1
    /\ UNCHANGED <<selected_files, src_lang, tgt_lang, speech, pc, translator,
                   init_calls, i, fs, srt_content, processed_videos,
                   generated_subtitles, exit_status, failed_stage, run_written>>

\* line 171: the translator call raises
TranslateFail ==
    /\ pc = "Translating"
    /\ j < Len(transcript_segments)
    /\ Crash("Translating")
    /\ UNCHANGED <<selected_files, src_lang, tgt_lang, speech, translator, init_calls,
                   i, fs, transcript_segments, j, srt_content, processed_videos,
                   generated_subtitles, run_written>>

\* Variant of ComposeSrt that does not wait for the loop at 169 to be through.
ComposeSrt_Early ==
    /\ pc = "Translating"
    /\ srt_content' = Compose(Subtitles(transcript_segments))
    /\ pc' = "WritingSrt"
    /\ UNCHANGED <<selected_files, src_lang, tgt_lang, speech, translator, init_calls,
                   i, fs, transcript_segments, j, processed_videos,
                   generated_subtitles, exit_status, failed_stage, run_written>>

\* lines 174-193, once the loop at 169 is through
ComposeSrt ==
    /\ pc = "Translating"
    /\ j = Len(transcript_segments)
    /\ srt_content' = Compose(Subtitles(transcript_segments))
    /\ pc' = "WritingSrt"
    /\ UNCHANGED <<selected_files, src_lang, tgt_lang, speech, translator, init_calls,
                   i, fs, transcript_segments, j, processed_videos,
                   generated_subtitles, exit_status, failed_stage, run_written>>

\* lines 196-197
WriteSrtOk ==
    /\ pc = "WritingSrt"
    /\ fs' = WriteFile(fs, SrtPath(file, tgt_lang), SrtData(srt_content))
    /\ run_written' = run_written \cup {SrtPath(file, tgt_lang)}
    /\ pc' = "WritingAlt"
    /\ UNCHANGED <<selected_files, src_lang, tgt_lang, speech, translator, init_calls,
                   i, transcript_segments, j, srt_content, processed_videos,
                   generated_subtitles, exit_status, failed_stage>>

\* lines 196-197: open raises (nothing is touched) or write raises (the file has
\* been created or emptied)
WriteSrtFail ==
    /\ pc = "WritingSrt"
    /\ \E opened \in BOOLEAN :
          /\ fs' = IF opened THEN WriteFile(fs, SrtPath(file, tgt_lang), PartialSrt) ELSE fs
          /\ run_written' = IF opened THEN run_written \cup {SrtPath(file, tgt_lang)}
                            ELSE run_written
    /\ Crash("Assembling")
    /\ UNCHANGED <<selected_files, src_lang, tgt_lang, speech, translator, init_calls,
                   i, transcript_segments, j, srt_content, processed_videos,
                   generated_subtitles>>

\* lines 198-199
WriteAltOk ==
    /\ pc = "WritingAlt"
    /\ fs' = WriteFile(fs, AltSrtPath(file, tgt_lang), SrtData(srt_content))
    /\ run_written' = run_written \cup {AltSrtPath(file, tgt_lang)}
    /\ pc' = "RemovingAudio"
    /\ UNCHANGED <<selected_files, src_lang, tgt_lang, speech, translator, init_calls,
                   i, transcript_segments, j, srt_content, processed_videos,
                   generated_subtitles, exit_status, failed_stage>>

\* lines 198-199 raising
WriteAltFail ==
    /\ pc = "WritingAlt"
    /\ \E opened \in BOOLEAN :
          /\ fs' = IF opened THEN WriteFile(fs, AltSrtPath(file, tgt_lang), PartialSrt) ELSE fs
          /\ run_written' = IF opened THEN run_written \cup {AltSrtPath(file, tgt_lang)}
                            ELSE run_written
    /\ Crash("Assembling")
    /\ UNCHANGED <<selected_files, src_lang, tgt_lang, speech, translator, init_calls,
                   i, transcript_segments, j, srt_content, processed_videos,
                   generated_subtitles>>

\* Variant of RemoveAudioOk that removes the video instead of the audio
\* (os.remove(video_path)).
RemoveAudioOk_WrongPath ==
    /\ pc = "RemovingAudio"
    /\ fs' = RemoveFile(fs, VideoPath(file))
    /\ pc' = "Recording"
    /\ UNCHANGED <<selected_files, src_lang, tgt_lang, speech, translator, init_calls,
                   i, transcript_segments, j, srt_content, processed_videos,
                   generated_subtitles, exit_status, failed_stage, run_written>>

\* line 202
RemoveAudioOk ==
    /\ pc = "RemovingAudio"
    /\ fs' = RemoveFile(fs, AudioPath(file))
    /\ pc' = "Recording"
    /\ UNCHANGED <<selected_files, src_lang, tgt_lang, speech, translator, init_calls,
                   i, transcript_segments, j, srt_content, processed_videos,
                   generated_subtitles, exit_status, failed_stage, run_written>>

\* line 202: os.remove raises OSError
RemoveAudioFail ==
    /\ pc = "RemovingAudio"
    /\ Crash("RemovingAudio")
    /\ UNCHANGED <<selected_files, src_lang, tgt_lang, speech, translator, init_calls,
                   i, fs, transcript_segments, j, srt_content, processed_videos,
                   generated_subtitles, run_written>>

\* Variant of Record that leaves out line 205.
Record_VideoOnly ==
    /\ pc = "Recording"
    /\ processed_videos' = Append(processed_videos, file)
    /\ pc' = "LoopHead"
    /\ UNCHANGED <<selected_files, src_lang, tgt_lang, speech, translator, init_calls,
                   i, fs, transcript_segments, j, srt_content, generated_subtitles,
                   exit_status, failed_stage, run_written>>

\* lines 204-205
Record ==
    /\ pc = "Recording"
    /\ processed_videos' = Append(processed_videos, file)
    /\ generated_subtitles' =
          Append(generated_subtitles, <<SrtPath(file, tgt_lang), AltSrtPath(file, tgt_lang)>>)
    /\ pc' = "LoopHead"
    /\ UNCHANGED <<selected_files, src_lang, tgt_lang, speech, translator, init_calls,
                   i, fs, transcript_segments, j, srt_content, exit_status,
                   failed_stage, run_written>>

\* lines 207-217: the loop is through, the report is printed, main() returns
FinalReport ==
    /\ pc = "LoopHead"
    /\ i = Len(selected_files)
    /\ pc' = "Exited"
    /\ exit_status' = "0"
    /\ UNCHANGED <<selected_files, src_lang, tgt_lang, speech, translator, init_calls,
                   i, fs, transcript_segments, j, srt_content, processed_videos,
                   generated_subtitles, failed_stage, run_written>>

Next ==
    \/ InitTranslatorOk
    \/ InitTranslatorFail
    \/ NextVideo
    \/ ExtractAudioOk
    \/ ExtractAudioFail
    \/ TranscribeOk
    \/ TranscribeFail
    \/ TranslateOk
    \/ TranslateFail
    \/ ComposeSrt
    \/ WriteSrtOk
    \/ WriteSrtFail
    \/ WriteAltOk
    \/ WriteAltFail
    \/ RemoveAudioOk
    \/ RemoveAudioFail
    \/ Record
    \/ FinalReport

Spec == Init /\ [][Next]_vars

\* One selected video whose audio yields any list of at most MaxSegs segments
LangPairsOne == {<<"it", "en">>, <<"en", "de">>}

InitOne ==
    /\ InitWith({<<v>> : v \in Videos}, languages, languages,
                {[v \in Videos |-> IF v = w THEN t ELSE <<>>] :
                     w \in Videos, t \in Transcripts(MaxSegs)})
    /\ <<src_lang, tgt_lang>> \in LangPairsOne
    /\ \A v \in Videos \ {selected_files[1]} : speech[v] = <<>>

SpecOne == InitOne /\ [][Next]_vars

\* The naming of lines 186-193 applied to any two-letter code, also one that
\* iso_map does not hold
AnyCode == languages \cup {"xx"}

InitNaming ==
    InitWith({<<v>> : v \in Videos}, {"it"}, AnyCode, [Videos -> BatchTranscripts])

SpecNaming == InitNaming /\ [][Next]_vars

----------------------------------------------------------------------------
(* Vocabulary of the properties *)

\* the video's run is between the start of extraction and the report entry
InRun == pc \in {"Extracting", "Transcribing", "Translating", "WritingSrt",
                 "WritingAlt", "RemovingAudio", "Recording"}

\* the batch has left the video it took last
LeftVideo == i >= 1 /\ pc \in {"LoopHead", "Exited"}

\* srt_content is the document of the current video
Composed == pc \in {"WritingSrt", "WritingAlt", "RemovingAudio", "Recording"}

OutputPaths == {SrtPath(file, tgt_lang), AltSrtPath(file, tgt_lang)}

BothWritten ==
    /\ OutputPaths \subseteq run_written
    /\ \A p \in OutputPaths : Exists(fs, p) /\ fs[p] = SrtData(srt_content)

\* a timestamp of the document read back as milliseconds
TsMillis(ts) == ((ts.hrs * 60 + ts.mins) * 60 + ts.secs) * 1000 + ts.msecs

\* block b of a document carries segment g: its time range and the translation of
\* its stripped text
Carries(b, g) ==
    /\ TsMillis(b.start) = g.start
    /\ TsMillis(b.end) = g.end
    /\ b.content = translate_text(Strip(g.text), src_lang, tgt_lang)

\* the positions of the segments that srt.compose keeps
KeptPositions(segs) ==
    {k \in 1 .. Len(segs) :
        /\ Strip(translate_text(Strip(segs[k].text), src_lang, tgt_lang)) /= <<>>
        /\ segs[k].start < segs[k].end}

\* position a comes before position b in the order of (start, end, position)
Before(segs, a, b) ==
    \/ segs[a].start < segs[b].start
    \/ segs[a].start = segs[b].start /\ segs[a].end < segs[b].end
    \/ segs[a].start = segs[b].start /\ segs[a].end = segs[b].end /\ a < b

StartsNonDecreasing(doc) ==
    \A n \in 1 .. Len(doc) - 1 : TsMillis(doc[n].start) <= TsMillis(doc[n + 1].start)

EndsNonDecreasing(doc) ==
    \A n \in 1 .. Len(doc) - 1 : TsMillis(doc[n].end) <= TsMillis(doc[n + 1].end)

SegsMonotonic(segs) ==
    \A k \in 1 .. Len(segs) - 1 :
        segs[k].start <= segs[k + 1].start /\ segs[k].end <= segs[k + 1].end

----------------------------------------------------------------------------
(* Properties *)

\* C1 (as claimed): a stage failure ends only that video's run: nothing is recorded
\* for the video and the batch takes the next selected video, so once the backend is
\* ready the process ends only after every selected video has been taken and the
\* report printed.
C1_FailureSkipsOnlyThatVideo ==
    /\ failed_stage /= "none" => Len(processed_videos) < i
    /\ (pc = "Exited" /\ translator = "ready") => i = Len(selected_files)

\* C2 (as claimed): whenever the batch has left a video whose run got as far as
\* transcription, that video's name.wav does not exist.
C2_AudioGoneWhenVideoLeft ==
    (LeftVideo /\ failed_stage /= "Extracting") => ~ Exists(fs, AudioPath(file))

\* C3: pipeline(...) is called at most once, exactly once before the loop takes its
\* first video, and when it fails the process has exited with status 1 with no video
\* taken and the folder as it was (no .wav, no .srt).
C3_TranslatorInitOnceBeforeLoop ==
    /\ init_calls <= 1
    /\ pc /= "InitTranslator" => init_calls = 1
    /\ (pc /= "InitTranslator" /\ pc /= "Exited") => translator = "ready"
    /\ i >= 1 => translator = "ready"
    /\ translator = "failed" =>
           /\ pc = "Exited"
           /\ exit_status = "1"
           /\ i = 0
           /\ fs = FolderFiles
           /\ processed_videos = <<>>

C3_Witness == translator = "failed" /\ pc = "Exited" /\ Len(selected_files) >= 1

\* C4 (as claimed): when a video's run has ended, either both output files were
\* written with the same content and the video is in the report, or the run wrote
\* no subtitle file at all.
C4_NoPartialOutputs ==
    LeftVideo =>
        \/ BothWritten /\ Len(processed_videos) = i
        \/ run_written = {}

C6_ReportInv ==
    /\ Len(processed_videos) = Len(generated_subtitles)
    /\ Len(processed_videos) <= i
    /\ processed_videos = SubSeq(selected_files, 1, Len(processed_videos))
    /\ \A k \in 1 .. Len(processed_videos) :
           generated_subtitles[k] = <<SrtPath(processed_videos[k], tgt_lang),
                                      AltSrtPath(processed_videos[k], tgt_lang)>>
    /\ exit_status = "0" => processed_videos = selected_files

\* the step part of C6
C6_ReportStep ==
    /\ IsPrefix(processed_videos, processed_videos')
    /\ IsPrefix(generated_subtitles, generated_subtitles')
    /\ processed_videos' /= processed_videos =>
           /\ processed_videos' = Append(processed_videos, file)
           /\ pc = "Recording"
           /\ j = Len(transcript_segments)
           /\ BothWritten
           /\ failed_stage = "none"

\* C6: the two lists of the report have the same length, the k-th pair is the pair of
\* the k-th reported video, the reported videos are the selected videos taken so far;
\* a step never removes or changes an entry, and it adds one only for the current
\* video, after translation is through, both files are written and no stage failed.
C6_ReportAppendOnly == [] C6_ReportInv /\ [][C6_ReportStep]_vars

C6_Witness == pc = "Exited" /\ Len(processed_videos) >= 2

C9_ExpectedAlt(code) ==
    CASE code = "en" -> "eng"
      [] code = "it" -> "ita"
      [] code = "fr" -> "fra"
      [] code = "es" -> "spa"
      [] code = "de" -> "deu"
      [] OTHER -> code

\* C9: once both writes are done the folder holds base.<code>.srt and base.<alt>.srt,
\* alt being eng, ita, fra, spa, deu for en, it, fr, es, de and the code itself
\* otherwise; both hold the composed document; for a code with a three-letter form
\* they are two files, otherwise one.
C9_TwoNamesSameContent ==
    pc \in {"RemovingAudio", "Recording"} =>
        LET two   == <<file.root, ".", tgt_lang, ".srt">>
            three == <<file.root, ".", C9_ExpectedAlt(tgt_lang), ".srt">>
        IN  /\ run_written = {two, three}
            /\ Exists(fs, two) /\ Exists(fs, three)
            /\ fs[two] = SrtData(srt_content)
            /\ fs[three] = fs[two]
            /\ (two = three) <=> (tgt_lang \notin {"en", "it", "fr", "es", "de"})

C9_Witness ==
    pc = "Recording" /\ tgt_lang = "xx" /\ Cardinality(run_written) = 1 /\ Len(srt_content) >= 1

\* the steps C10 allows
C10_Order ==
    /\ i' \in {i, i + 1}
    /\ i' /= i => pc = "LoopHead" /\ pc' = "Extracting" /\ file' = selected_files[i + 1]
    /\ pc = "InitTranslator" => pc' \in {"LoopHead", "Exited"}
    /\ pc = "LoopHead" => pc' \in {"Extracting", "Exited"}
    /\ pc = "Extracting" => pc' \in {"Transcribing", "Exited"}
    /\ pc = "Transcribing" => pc' \in {"Translating", "Exited"}
    /\ pc = "Translating" => pc' \in {"Translating", "WritingSrt", "Exited"}
    /\ pc = "WritingSrt" => pc' \in {"WritingAlt", "Exited"}
    /\ pc = "WritingAlt" => pc' \in {"RemovingAudio", "Exited"}
    /\ pc = "RemovingAudio" => pc' \in {"Recording", "Exited"}
    /\ pc = "Recording" => pc' = "LoopHead"
    /\ pc = "Exited" => pc' = "Exited"
    /\ (pc = "Extracting" /\ pc' = "Transcribing") =>
           Exists(fs', AudioPath(file)) /\ fs'[AudioPath(file)].complete
    /\ (pc = "Transcribing" /\ pc' = "Translating") =>
           transcript_segments' = speech[file] /\ j' = 0
    /\ (pc = "Translating" /\ pc' = "Translating") => j' = j + 1
    /\ (pc = "Translating" /\ pc' = "WritingSrt") => j = Len(transcript_segments)
    /\ (pc = "LoopHead" /\ pc' = "Exited") => i = Len(selected_files)

\* C10: the position moves only Extracting -> Transcribing -> Translating ->
\* Assembling (the two writes) -> audio removal -> report entry -> next video, or to
\* the exit; a stage starts only when the one before is complete; the loop takes the
\* selected videos one at a time, in the order of the selection.
C10_StrictlySequential == [][C10_Order]_vars

C10_Witness == i = 2 /\ pc = "Translating" /\ j = 1 /\ Len(processed_videos) = 1

====
